---- MODULE Spec2Model ----
(***************************************************************************)
(* The timer scheduler of backend/lib/scheduler/Scheduler.js: the periodic *)
(* tick (evaluateTimers), the watermark nextScheduledCheckTime, the drain  *)
(* loop, and the per-timer pipeline started by executeTimer.               *)
(*                                                                         *)
(* Time is epoch milliseconds (integers).  One tick is one atomic action:  *)
(* evaluateTimers never awaits, and the synchronous prefix of every        *)
(* executeTimer it calls (up to the first await) runs inside it.           *)
(***************************************************************************)
EXTENDS Integers, Sequences, FiniteSets, TLC

\* ------------------------------------------------------------------ constants

MS_PER_MIN == 60000

\* The value of nextScheduledCheckTime after construction (null).  Every
\* timestamp of the model is positive, so -1 is no timestamp.
NULL == -1

\* The value of a missing property / of a switch that matched no case.
UNDEFINED == "undefined"

\* ------------------------------------------------------------------ bounds

\* The wall clock is read in the minutes 0 .. MaxMinute after Base, and 60
\* minutes after the last of them (so that a watermark can be 60 minutes behind
\* the clock, and more).
MaxMinute == 2

\* Pipelines dispatched in one behaviour.
MaxPipelines == 2

\* Longest pre_actions list of a timer definition of PipelineSpec.
MaxPreActions == 2

\* Calls of shutdown() in one behaviour.
MaxShutdowns == 2

DayMs == 24 * 60 * MS_PER_MIN

\* Thursday 1970-01-01 23:59:00.000 UTC: the windows cross a change of minute,
\* of hour and of weekday.
Base == DayMs - MS_PER_MIN

NowMinutes == (0 .. MaxMinute) \cup {60 + MaxMinute}

\* Offsets of a clock reading within its minute.
OffsetsMs == {0, 1000}

\* The values new Date().getTime() returns to a tick.  The wall clock may jump
\* (NTP), so any tick may read any of them.
Times == {Base + m * MS_PER_MIN + o : m \in NowMinutes, o \in OffsetsMs}

\* The clock readings of PipelineSpec: Thursday 23:59 and Friday 00:00.
PipelineTimes == {Base, Base + MS_PER_MIN}

NTPStates == {"Synced", "Disabled", "Other"}

\* ------------------------------------------------------------------ Date

\* Date.prototype.getUTCDay / getUTCHours / getUTCMinutes of new Date(t).
\* 1970-01-01 was a Thursday (day 4).
getUTCDay(t) == ((t \div DayMs) + 4) % 7

getUTCHours(t) == (t \div (60 * MS_PER_MIN)) % 24

getUTCMinutes(t) == (t \div MS_PER_MIN) % 60

\* The checkTime object of one drain iteration.
CheckTime(t) == [dow |-> getUTCDay(t), hour |-> getUTCHours(t), minute |-> getUTCMinutes(t)]

\* ------------------------------------------------------------------ timers

\* The handler classes executeTimer instantiates.
ResolveActionType(type) ==
    CASE type = "FULL_CLEANUP" -> "ValetudoFullCleanupTimerAction"
      [] type = "SEGMENT_CLEANUP" -> "ValetudoSegmentCleanupTimerAction"
      [] OTHER -> UNDEFINED

ResolvePreActionType(type) ==
    CASE type = "FAN_SPEED_CONTROL" -> "ValetudoFanSpeedControlTimerPreAction"
      [] type = "WATER_USAGE_CONTROL" -> "ValetudoWaterUsageControlTimerPreAction"
      [] type = "OPERATION_MODE_CONTROL" -> "ValetudoOperationModeControlTimerPreAction"
      [] OTHER -> UNDEFINED

\* timerDefinition.action?.type
ActionTypeOf(timerDefinition) ==
    IF "action" \in DOMAIN timerDefinition THEN timerDefinition.action.type ELSE UNDEFINED

\* The list the validation pass iterates: pre_actions when it is an array.
PreActionDefsOf(timerDefinition) ==
    IF "pre_actions" \in DOMAIN timerDefinition THEN timerDefinition.pre_actions ELSE <<>>

\* One entry of the configuration's "timers" object, in Object.values order.
\* A definition may lack "action" or "pre_actions".
Timer(id, enabled, dow, hour, minute, actionType, preActionTypes) ==
    [ id |-> id, enabled |-> enabled, dow |-> dow, hour |-> hour, minute |-> minute,
      action |-> [type |-> actionType],
      pre_actions |-> [i \in 1 .. Len(preActionTypes) |->
                          [type |-> preActionTypes[i], params |-> [value |-> "v"]]] ]

\* The timers of Spec: one that is due at Thursday 23:59, and four that miss
\* that minute by one field each (enabled, dow, hour, minute).
ScheduleTimers ==
    << Timer("thu2359", TRUE, {4}, 23, 59, "FULL_CLEANUP", <<>>),
       Timer("off2359", FALSE, {4}, 23, 59, "FULL_CLEANUP", <<>>),
       Timer("sat2359", TRUE, {3, 6}, 23, 59, "SEGMENT_CLEANUP", <<>>),
       Timer("thu0059", TRUE, {4}, 0, 59, "FULL_CLEANUP", <<>>),
       Timer("thu2300", TRUE, {4}, 23, 0, "FULL_CLEANUP", <<>>) >>

\* The timer definitions of PipelineSpec.  The first is due at Thursday 23:58
\* and takes every shape of action and pre_actions: the action missing, of a
\* known or of an unknown type; pre_actions missing, or a list of up to
\* MaxPreActions entries, no entry twice, of known and unknown types, or a list
\* with an entry that has no params.  The second is a well-formed timer due one
\* minute later.
ActionTypes == {"FULL_CLEANUP", "SEGMENT_CLEANUP", "bogus_action"}

PreActionTypes ==
    {"FAN_SPEED_CONTROL", "WATER_USAGE_CONTROL", "OPERATION_MODE_CONTROL", "bogus_pre_action"}

PreActionEntries ==
    {[type |-> t, params |-> [value |-> "v"]] : t \in PreActionTypes}

\* Lists with an entry of known type that has no params: alone, before an
\* entry of unknown type, and after a valid entry.
ParamlessLists ==
    { << [type |-> "FAN_SPEED_CONTROL"] >>,
      << [type |-> "FAN_SPEED_CONTROL"],
         [type |-> "bogus_pre_action", params |-> [value |-> "v"]] >>,
      << [type |-> "WATER_USAGE_CONTROL", params |-> [value |-> "v"]],
         [type |-> "FAN_SPEED_CONTROL"] >> }

PreActionLists ==
    UNION { { l \in [1 .. n -> PreActionEntries] : \A i, j \in 1 .. n : l[i] = l[j] => i = j }
            : n \in 0 .. MaxPreActions }
        \cup ParamlessLists

Schedule(id, minute) ==
    [id |-> id, enabled |-> TRUE, dow |-> {4}, hour |-> 23, minute |-> minute]

WithAction(t, type) == t @@ [action |-> [type |-> type]]

WithPreActions(t, entries) == t @@ [pre_actions |-> entries]

PipelineTimerShapes ==
    LET t == Schedule("shaped", 58)
        a == {t} \cup {WithAction(t, type) : type \in ActionTypes}
    IN  a \cup {WithPreActions(x, l) : x \in a, l \in PreActionLists}

PipelineTimerConfigs ==
    { << shaped, WithPreActions(WithAction(Schedule("other", 59), "FULL_CLEANUP"), <<>>) >>
      : shaped \in PipelineTimerShapes }

\* ------------------------------------------------------------------ state

VARIABLES
    nextScheduledCheckTime,   \* this.nextScheduledCheckTime: NULL or epoch ms
    timerEvaluationInterval,  \* TRUE while the setInterval of the constructor is set
    ntpState,                 \* this.ntpClient.state (owned by the NTP client)
    embedded,                 \* this.config.get("embedded")
    timers,                   \* Object.values(this.config.get("timers"))
    pipelines,                \* the executeTimer calls made so far, in call order
    lastEvaluationTime,       \* history: nowTime of the latest tick that passed the gate
    lastChecked,              \* history: the watermark of the latest drain iteration
    lastTick,                 \* history: what the latest tick read and did
    lastShutdown              \* history: the calls of shutdown() made so far

vars == << nextScheduledCheckTime, timerEvaluationInterval, ntpState, embedded, timers,
           pipelines, lastEvaluationTime, lastChecked, lastTick, lastShutdown >>

NoTick ==
    [ kind |-> "none", nowTime |-> NULL, before |-> NULL, entry |-> NULL,
      checked |-> <<>>, dispatched |-> <<>>, prevNow |-> NULL, prevChecked |-> NULL,
      pipelinesBefore |-> 0, afterGated |-> FALSE ]

\* No call of shutdown() yet.  calls counts the calls and rejected those whose
\* promise rejected; watermark is nextScheduledCheckTime at the first call.
NoShutdown ==
    [ calls |-> 0, rejected |-> 0, watermark |-> NULL ]

\* The state after the constructor.
Init ==
    /\ nextScheduledCheckTime = NULL
    /\ timerEvaluationInterval = TRUE
    /\ ntpState \in NTPStates
    /\ embedded \in BOOLEAN
    /\ timers = ScheduleTimers
    /\ pipelines = <<>>
    /\ lastEvaluationTime = NULL
    /\ lastChecked = NULL
    /\ lastTick = NoTick
    /\ lastShutdown = NoShutdown

\* ------------------------------------------------------------------ evaluateTimers

\* Mutant of SyncGateClosed: the gate ignores the deployment flag.
SyncGateClosedAnyDeployment(state, isEmbedded) ==
    ~(state = "Synced" \/ state = "Disabled")

\* The gate of evaluateTimers: embedded without a synced (or disabled) NTP client.
SyncGateClosed(state, isEmbedded) ==
    /\ ~(state = "Synced" \/ state = "Disabled")
    /\ isEmbedded = TRUE

\* Mutant of WatermarkInvalid: a watermark exactly 60 minutes behind is reset too.
WatermarkInvalidInclusive(w, nowTime) ==
    \/ w = NULL
    \/ w > nowTime
    \/ w <= nowTime - 60 * MS_PER_MIN

\* Mutant of WatermarkInvalid: a watermark ahead of the clock is not looked for.
WatermarkInvalidIgnoringFuture(w, nowTime) ==
    \/ w = NULL
    \/ w < nowTime - 60 * MS_PER_MIN

\* Mutant of WatermarkInvalid: the watermark is kept one minute longer.
WatermarkInvalidAfter61Minutes(w, nowTime) ==
    \/ w = NULL
    \/ w > nowTime
    \/ w < nowTime - 61 * MS_PER_MIN

\* "nextScheduledCheckTime is invalid": the condition of the reset.
WatermarkInvalid(w, nowTime) ==
    \/ w = NULL
    \/ w > nowTime
    \/ w < nowTime - 60 * MS_PER_MIN

\* Mutant of RederiveWatermark: no watermark is kept from tick to tick.
RederiveWatermarkAlways(w, nowTime) == nowTime - MS_PER_MIN

\* Mutant of RederiveWatermark: the reset truncates the clock to its minute.
RederiveWatermarkOnMinuteBoundary(w, nowTime) ==
    IF WatermarkInvalid(w, nowTime)
    THEN (nowTime \div MS_PER_MIN) * MS_PER_MIN - MS_PER_MIN
    ELSE w

\* Mutant of RederiveWatermark: the watermark is not kept across a gated tick.
RederiveWatermarkAfterGate(w, nowTime) ==
    IF WatermarkInvalid(w, nowTime) \/ lastTick.kind = "gated"
    THEN nowTime - MS_PER_MIN
    ELSE w

\* The watermark the drain loop starts from.
RederiveWatermark(w, nowTime) ==
    IF WatermarkInvalid(w, nowTime) THEN nowTime - MS_PER_MIN ELSE w

\* Mutant of DrainCondition: the loop waits until a whole minute has elapsed
\* since the watermark.
DrainConditionWholeMinute(w, nowTime) == w + MS_PER_MIN <= nowTime

\* Mutant of DrainCondition: the loop also runs for a watermark equal to now.
DrainConditionInclusive(w, nowTime) == w <= nowTime

\* The condition of the drain loop.
DrainCondition(w, nowTime) == w < nowTime

\* Mutant of TimerMatches: the enabled flag is not looked at.
TimerMatchesIgnoringEnabled(timerDefinition, checkTime) ==
    /\ checkTime.dow \in timerDefinition.dow
    /\ timerDefinition.hour = checkTime.hour
    /\ timerDefinition.minute = checkTime.minute

\* Mutant of TimerMatches: a timer with a pipeline still in flight is not
\* started again.
TimerMatchesUnlessRunning(timerDefinition, checkTime) ==
    /\ timerDefinition.enabled = TRUE
    /\ checkTime.dow \in timerDefinition.dow
    /\ timerDefinition.hour = checkTime.hour
    /\ timerDefinition.minute = checkTime.minute
    /\ ~\E i \in 1 .. Len(pipelines) :
           /\ pipelines[i].status = "awaiting"
           /\ timers[pipelines[i].timer] = timerDefinition

\* The condition under which a drain iteration calls executeTimer.
TimerMatches(timerDefinition, checkTime) ==
    /\ timerDefinition.enabled = TRUE
    /\ checkTime.dow \in timerDefinition.dow
    /\ timerDefinition.hour = checkTime.hour
    /\ timerDefinition.minute = checkTime.minute

\* The forEach of one drain iteration at watermark w, whose checkTime has been
\* computed: the executeTimer calls it makes, in Object.values order.
ForEachTimer(tms, w, checkTime) ==
    LET hit == SelectSeq([i \in 1 .. Len(tms) |-> i],
                         LAMBDA i : TimerMatches(tms[i], checkTime))
    IN  [j \in 1 .. Len(hit) |-> [timer |-> hit[j], checkTime |-> w]]

\* The body of the drain loop at watermark w.
MatchingTimers(tms, w) == ForEachTimer(tms, w, CheckTime(w))

\* Mutant of Drain: an if in place of the while, one iteration per tick at most.
DrainOnce(st, nowTime, tms) ==
    IF DrainCondition(st.w, nowTime)
    THEN [ w |-> st.w + MS_PER_MIN,
           checked |-> Append(st.checked, st.w),
           dispatched |-> st.dispatched \o MatchingTimers(tms, st.w) ]
    ELSE st

\* Mutant of Drain: executeTimer is not async, so the TypeError of a definition
\* without action leaves the forEach and the loop: the timers after it are not
\* looked at and the watermark is not advanced.
RECURSIVE DrainUntilThrow(_, _, _)
DrainUntilThrow(st, nowTime, tms) ==
    IF DrainCondition(st.w, nowTime)
    THEN LET calls == MatchingTimers(tms, st.w)
             throwing == {j \in 1 .. Len(calls) : "action" \notin DOMAIN tms[calls[j].timer]}
             first == CHOOSE j \in throwing : \A k \in throwing : j <= k
         IN  IF throwing = {}
             THEN DrainUntilThrow([ w |-> st.w + MS_PER_MIN,
                                    checked |-> Append(st.checked, st.w),
                                    dispatched |-> st.dispatched \o calls ],
                                  nowTime, tms)
             ELSE [ w |-> st.w,
                    checked |-> Append(st.checked, st.w),
                    dispatched |-> st.dispatched \o SubSeq(calls, 1, first) ]
    ELSE st

\* The drain loop: st.w is the watermark, st.checked the watermarks already
\* evaluated, st.dispatched the executeTimer calls already made.
RECURSIVE Drain(_, _, _)
Drain(st, nowTime, tms) ==
    IF DrainCondition(st.w, nowTime)
    THEN Drain([ w |-> st.w + MS_PER_MIN,
                 checked |-> Append(st.checked, st.w),
                 dispatched |-> st.dispatched \o MatchingTimers(tms, st.w) ],
               nowTime, tms)
    ELSE st

\* ------------------------------------------------------------------ executeTimer

\* The validation pass over pre_actions, entry by entry: the handlers pushed to
\* preActions so far, whether an entry of unknown type ended the pass
\* (Logger.warn and return), and whether an entry of known type without params
\* ended it (params.value throws a TypeError).
RECURSIVE ResolvePreActions(_, _, _)
ResolvePreActions(defs, i, preActions) ==
    IF i > Len(defs)
    THEN [unknown |-> FALSE, threw |-> FALSE, preActions |-> preActions]
    ELSE LET preAction == ResolvePreActionType(defs[i].type)
         IN  IF preAction # UNDEFINED
             THEN IF "params" \in DOMAIN defs[i]
                  THEN ResolvePreActions(defs, i + 1,
                           Append(preActions,
                                  [stage |-> "pre_action", n |-> i, handler |-> preAction]))
                  ELSE [unknown |-> FALSE, threw |-> TRUE, preActions |-> preActions]
             ELSE [unknown |-> TRUE, threw |-> FALSE, preActions |-> preActions]

\* A call of executeTimer that ended before any run(): status "resolved" when it
\* returned (after Logger.warn), "rejected" when it threw (Logger.error in the
\* catch of evaluateTimers).
Ended(timer, status, warned) ==
    [ timer |-> timer, steps |-> <<>>, pc |-> 0, runs |-> <<>>, completed |-> 0,
      status |-> status, warnings |-> IF warned THEN 1 ELSE 0,
      errors |-> IF status = "rejected" THEN 1 ELSE 0 ]

\* Mutant of Started: the runs are not awaited, all of them start at once.
StartedWithoutAwait(timer, steps) ==
    [ timer |-> timer, steps |-> steps, pc |-> Len(steps), runs |-> steps, completed |-> 0,
      status |-> "awaiting", warnings |-> 0, errors |-> 0 ]

\* The first run() of the execution pass: the pipeline now awaits steps[1].
Started(timer, steps) ==
    [ timer |-> timer, steps |-> steps, pc |-> 1, runs |-> <<steps[1]>>, completed |-> 0,
      status |-> "awaiting", warnings |-> 0, errors |-> 0 ]

\* Mutant of executeTimer: one pass, which runs the pre-actions that precede an
\* entry of unknown type before it finds that entry.
executeTimerSinglePass(timer, timerDefinition) ==
    LET action == ResolveActionType(ActionTypeOf(timerDefinition))
        pre == ResolvePreActions(PreActionDefsOf(timerDefinition), 1, <<>>)
    IN  IF action = UNDEFINED
        THEN IF "action" \in DOMAIN timerDefinition
             THEN Ended(timer, "resolved", TRUE)
             ELSE Ended(timer, "rejected", FALSE)
        ELSE IF pre.threw /\ pre.preActions = <<>>
             THEN Ended(timer, "rejected", FALSE)
             ELSE IF pre.unknown /\ pre.preActions = <<>>
             THEN Ended(timer, "resolved", TRUE)
             ELSE IF pre.unknown \/ pre.threw
             THEN Started(timer, pre.preActions)
             ELSE Started(timer, Append(pre.preActions,
                                       [stage |-> "action", n |-> 0, handler |-> action]))

\* executeTimer(timerDefinition) up to its first await, for the timer at index
\* timer of the configuration.  With the action undefined the argument of
\* Logger.warn reads timerDefinition.action.type, which throws a TypeError when
\* the definition has no action.  A TypeError rejects the call like a failed
\* run does.
executeTimer(timer, timerDefinition) ==
    LET action == ResolveActionType(ActionTypeOf(timerDefinition))
        pre == ResolvePreActions(PreActionDefsOf(timerDefinition), 1, <<>>)
    IN  IF action = UNDEFINED
        THEN IF "action" \in DOMAIN timerDefinition
             THEN Ended(timer, "resolved", TRUE)
             ELSE Ended(timer, "rejected", FALSE)
        ELSE IF pre.threw
             THEN Ended(timer, "rejected", FALSE)
             ELSE IF pre.unknown
             THEN Ended(timer, "resolved", TRUE)
             ELSE Started(timer, Append(pre.preActions,
                                       [stage |-> "action", n |-> 0, handler |-> action]))

\* The continuation of executeTimer after the awaited run() of pipeline p has
\* fulfilled: the next run() of the execution pass, or the end of the function.
AfterRun(p) ==
    IF p.pc < Len(p.steps)
    THEN [p EXCEPT !.completed = @ + 1, !.pc = @ + 1, !.runs = Append(@, p.steps[p.pc + 1])]
    ELSE [p EXCEPT !.completed = @ + 1, !.status = "resolved"]

\* Mutant of AfterFailedRun: the failure is logged and the pipeline goes on.
AfterFailedRunContinuing(p) ==
    IF p.pc < Len(p.steps)
    THEN [p EXCEPT !.errors = @ + 1, !.pc = @ + 1, !.runs = Append(@, p.steps[p.pc + 1])]
    ELSE [p EXCEPT !.errors = @ + 1, !.status = "rejected"]

\* The awaited run() of pipeline p has rejected: executeTimer rejects and the
\* catch of evaluateTimers logs the error.
AfterFailedRun(p) ==
    [p EXCEPT !.status = "rejected", !.errors = @ + 1]

\* ------------------------------------------------------------------ actions

\* One call of evaluateTimers by the interval, reading nowTime from the clock.
evaluateTimers(nowTime) ==
    /\ timerEvaluationInterval = TRUE
    /\ IF SyncGateClosed(ntpState, embedded)
       THEN /\ lastTick' = [ NoTick EXCEPT !.kind = "gated",
                                            !.before = nextScheduledCheckTime,
                                            !.prevNow = lastEvaluationTime,
                                            !.prevChecked = lastChecked,
                                            !.pipelinesBefore = Len(pipelines) ]
            /\ UNCHANGED << nextScheduledCheckTime, pipelines, lastEvaluationTime,
                            lastChecked >>
       ELSE \E entry \in {RederiveWatermark(nextScheduledCheckTime, nowTime)} :
            \E end \in {Drain([w |-> entry, checked |-> <<>>, dispatched |-> <<>>],
                              nowTime, timers)} :
            \E calls \in {[j \in 1 .. Len(end.dispatched) |->
                              executeTimer(end.dispatched[j].timer,
                                           timers[end.dispatched[j].timer])]} :
                /\ Len(pipelines) + Len(calls) <= MaxPipelines
                /\ nextScheduledCheckTime' = end.w
                /\ pipelines' = pipelines \o calls
                /\ lastEvaluationTime' = nowTime
                /\ lastChecked' = IF end.checked = <<>> THEN lastChecked
                                  ELSE end.checked[Len(end.checked)]
                /\ lastTick' = [ kind |-> "evaluated", nowTime |-> nowTime,
                                 before |-> nextScheduledCheckTime,
                                 entry |-> entry, checked |-> end.checked,
                                 dispatched |-> end.dispatched,
                                 prevNow |-> lastEvaluationTime,
                                 prevChecked |-> lastChecked,
                                 pipelinesBefore |-> Len(pipelines),
                                 afterGated |-> lastTick.kind = "gated" ]
    /\ UNCHANGED << timerEvaluationInterval, ntpState, embedded, timers, lastShutdown >>

\* The device operation pipeline i awaits completes.
RunSucceeds(i) ==
    /\ pipelines[i].status = "awaiting"
    /\ pipelines' = [pipelines EXCEPT ![i] = AfterRun(@)]
    /\ UNCHANGED << nextScheduledCheckTime, timerEvaluationInterval, ntpState, embedded,
                    timers, lastEvaluationTime, lastChecked, lastTick, lastShutdown >>

\* The device operation pipeline i awaits fails.
RunFails(i) ==
    /\ pipelines[i].status = "awaiting"
    /\ pipelines' = [pipelines EXCEPT ![i] = AfterFailedRun(@)]
    /\ UNCHANGED << nextScheduledCheckTime, timerEvaluationInterval, ntpState, embedded,
                    timers, lastEvaluationTime, lastChecked, lastTick, lastShutdown >>

\* The NTP client changes its state.
NTPStateChange ==
    /\ ntpState' \in NTPStates \ {ntpState}
    /\ UNCHANGED << nextScheduledCheckTime, timerEvaluationInterval, embedded, timers,
                    pipelines, lastEvaluationTime, lastChecked, lastTick, lastShutdown >>

\* The record of one more call of shutdown() whose promise resolved or not.
ShutdownCalled(hasResolved) ==
    [ calls |-> lastShutdown.calls + 1,
      rejected |-> lastShutdown.rejected + (IF hasResolved THEN 0 ELSE 1),
      watermark |-> IF lastShutdown.calls = 0 THEN nextScheduledCheckTime
                    ELSE lastShutdown.watermark ]

\* Mutant of shutdown: a call on a scheduler that is already shut down rejects.
shutdownRejectingWhenStopped ==
    /\ lastShutdown.calls < MaxShutdowns
    /\ timerEvaluationInterval' = FALSE
    /\ lastShutdown' = ShutdownCalled(timerEvaluationInterval = TRUE)
    /\ UNCHANGED << nextScheduledCheckTime, ntpState, embedded, timers, pipelines,
                    lastEvaluationTime, lastChecked, lastTick >>

\* Mutant of shutdown: the interval is not cleared.
shutdownWithoutClearInterval ==
    /\ lastShutdown.calls < MaxShutdowns
    /\ lastShutdown' = ShutdownCalled(TRUE)
    /\ UNCHANGED << nextScheduledCheckTime, timerEvaluationInterval, ntpState, embedded,
                    timers, pipelines, lastEvaluationTime, lastChecked, lastTick >>

\* shutdown(): clearInterval, then resolve; nothing is awaited and nothing else
\* is written.  clearInterval of a cleared interval does nothing.
shutdown ==
    /\ lastShutdown.calls < MaxShutdowns
    /\ timerEvaluationInterval' = FALSE
    /\ lastShutdown' = ShutdownCalled(TRUE)
    /\ UNCHANGED << nextScheduledCheckTime, ntpState, embedded, timers, pipelines,
                    lastEvaluationTime, lastChecked, lastTick >>

Next ==
    \/ \E nowTime \in Times : evaluateTimers(nowTime)
    \/ \E i \in 1 .. Len(pipelines) : RunSucceeds(i)
    \/ \E i \in 1 .. Len(pipelines) : RunFails(i)
    \/ NTPStateChange
    \/ shutdown

Spec == Init /\ [][Next]_vars

\* The scheduler with the timers of PipelineTimerConfigs and a clock read at
\* the minutes after they are due.
PipelineInit ==
    /\ nextScheduledCheckTime = NULL
    /\ timerEvaluationInterval = TRUE
    /\ ntpState \in NTPStates
    /\ embedded \in BOOLEAN
    /\ timers \in PipelineTimerConfigs
    /\ pipelines = <<>>
    /\ lastEvaluationTime = NULL
    /\ lastChecked = NULL
    /\ lastTick = NoTick
    /\ lastShutdown = NoShutdown

PipelineNext ==
    \/ \E nowTime \in PipelineTimes : evaluateTimers(nowTime)
    \/ \E i \in 1 .. Len(pipelines) : RunSucceeds(i)
    \/ \E i \in 1 .. Len(pipelines) : RunFails(i)
    \/ NTPStateChange
    \/ shutdown

PipelineSpec == PipelineInit /\ [][PipelineNext]_vars

\* Two timers due in the same minute, Thursday 23:58, in either order of the
\* configuration: one of any shape with at most one pre-action, and a
\* well-formed one with one pre-action.
IsolationTimerConfigs ==
    LET sibling == WithPreActions(WithAction(Schedule("sibling", 58), "SEGMENT_CLEANUP"),
                                  << [type |-> "WATER_USAGE_CONTROL",
                                      params |-> [value |-> "v"]] >>)
        shapes == {t \in PipelineTimerShapes : Len(PreActionDefsOf(t)) <= 1}
    IN  {<< shaped, sibling >> : shaped \in shapes}
            \cup {<< sibling, shaped >> : shaped \in shapes}

IsolationInit ==
    /\ nextScheduledCheckTime = NULL
    /\ timerEvaluationInterval = TRUE
    /\ ntpState \in NTPStates
    /\ embedded \in BOOLEAN
    /\ timers \in IsolationTimerConfigs
    /\ pipelines = <<>>
    /\ lastEvaluationTime = NULL
    /\ lastChecked = NULL
    /\ lastTick = NoTick
    /\ lastShutdown = NoShutdown

IsolationSpec == IsolationInit /\ [][PipelineNext]_vars

\* The clock readings of HourSpec: Thursday 23:59, and 60 and 61 minutes later.
HourTimes == {Base, Base + 60 * MS_PER_MIN, Base + 61 * MS_PER_MIN}

\* The timers of Spec and one more, due at Friday 00:30.
HourTimers ==
    Append(ScheduleTimers, Timer("fri0030", TRUE, {5}, 0, 30, "FULL_CLEANUP", <<>>))

HourInit ==
    /\ nextScheduledCheckTime = NULL
    /\ timerEvaluationInterval = TRUE
    /\ ntpState \in NTPStates
    /\ embedded \in BOOLEAN
    /\ timers = HourTimers
    /\ pipelines = <<>>
    /\ lastEvaluationTime = NULL
    /\ lastChecked = NULL
    /\ lastTick = NoTick
    /\ lastShutdown = NoShutdown

HourNext ==
    \/ \E nowTime \in HourTimes : evaluateTimers(nowTime)
    \/ \E i \in 1 .. Len(pipelines) : RunSucceeds(i)
    \/ \E i \in 1 .. Len(pipelines) : RunFails(i)
    \/ NTPStateChange
    \/ shutdown

HourSpec == HourInit /\ [][HourNext]_vars

\* ------------------------------------------------------------------ claims

\* The latest tick passed the gate.
Evaluated == lastTick.kind = "evaluated"

\* The calendar minute an instant lies in.
MinuteIndex(t) == t \div 60000

\* C1: in every tick that passes the gate, a watermark that is null, or
\* strictly greater than now, or more than 3600000 ms behind now, enters the
\* drain loop as now - 60000, which is also the watermark of the first drain
\* iteration; any other watermark enters the drain loop unchanged.
C1_WatermarkRederivation ==
    Evaluated =>
        LET w == lastTick.before
            now == lastTick.nowTime
        IN  IF w = NULL \/ w > now \/ now - w > 3600000
            THEN /\ lastTick.entry = now - 60000
                 /\ lastTick.checked # <<>>
                 /\ lastTick.checked[1] = now - 60000
            ELSE /\ lastTick.entry = w
                 /\ lastTick.checked # <<>> => lastTick.checked[1] = w

\* A tick found the watermark more than 60 minutes behind and reset it.
C1_Witness ==
    /\ Evaluated
    /\ lastTick.before # NULL
    /\ lastTick.nowTime - lastTick.before > 3600000
    /\ lastTick.entry = lastTick.nowTime - 60000

\* A tick found the watermark exactly 60 minutes behind and kept it.
C1_WitnessKept ==
    /\ Evaluated
    /\ lastTick.before # NULL
    /\ lastTick.nowTime - lastTick.before = 3600000
    /\ lastTick.entry = lastTick.before

\* C2: when two consecutive ticks that pass the gate read clocks k + 1 whole
\* minutes apart (k >= 0, at most 60 minutes, the later reading the greater),
\* the drain loop of the second evaluates exactly k + 1 watermarks, each
\* 60000 ms after the one before.
C2_DriftCatchUp ==
    LET gap == lastTick.nowTime - lastTick.prevNow
    IN  ( /\ Evaluated
          /\ lastTick.prevNow # NULL
          /\ gap >= 60000
          /\ gap <= 3600000
          /\ gap % 60000 = 0 )
        => /\ Len(lastTick.checked) = gap \div 60000
           /\ \A i \in 1 .. Len(lastTick.checked) - 1 :
                  lastTick.checked[i + 1] = lastTick.checked[i] + 60000

\* The second tick came one minute late (k = 1) and evaluated two watermarks.
C2_Witness ==
    /\ Evaluated
    /\ lastTick.prevNow # NULL
    /\ lastTick.nowTime - lastTick.prevNow = 120000
    /\ Len(lastTick.checked) = 2

\* The second tick came 59 minutes late and evaluated 60 watermarks.
C2_WitnessHour ==
    /\ Evaluated
    /\ lastTick.prevNow # NULL
    /\ lastTick.nowTime - lastTick.prevNow = 3600000
    /\ Len(lastTick.checked) = 60

\* The tick reset a watermark it found set: the clock it read was behind the
\* watermark, or more than 60 minutes ahead of it.
ResetByClockJump ==
    /\ lastTick.before # NULL
    /\ \/ lastTick.before > lastTick.nowTime
       \/ lastTick.nowTime - lastTick.before > 3600000

\* The instant evaluated by the drain iteration before iteration i of the
\* latest tick (for i = 1, by the last iteration of an earlier tick).
Previous(i) == IF i = 1 THEN lastTick.prevChecked ELSE lastTick.checked[i - 1]

\* C3 as claimed, on drain iterations that follow each other in the stream,
\* whatever the clock did between them: the later one neither evaluates the
\* calendar minute of the earlier one again (a duplicate) nor leaves the minute
\* after it unevaluated by evaluating a later one (a skip).
C3_NoDuplicateNoSkip ==
    Evaluated =>
        \A i \in 1 .. Len(lastTick.checked) :
            Previous(i) # NULL =>
                /\ MinuteIndex(lastTick.checked[i]) # MinuteIndex(Previous(i))
                /\ MinuteIndex(lastTick.checked[i]) <= MinuteIndex(Previous(i)) + 1

\* C3 as amended: a drain iteration evaluates the calendar minute right after
\* the one evaluated by the drain iteration before it, within a tick and from
\* one tick to the next, unless the later tick reset the watermark because the
\* clock it read was behind the watermark or more than 3600000 ms ahead of it.
C3_NoDuplicateNoSkipWithoutReset ==
    Evaluated =>
        \A i \in 1 .. Len(lastTick.checked) :
            (Previous(i) # NULL /\ (i = 1 => ~ResetByClockJump)) =>
                MinuteIndex(lastTick.checked[i]) = MinuteIndex(Previous(i)) + 1

\* A late tick that kept the watermark of the tick before it and evaluated two
\* minutes.
C3_Witness ==
    /\ Evaluated
    /\ lastTick.prevChecked # NULL
    /\ ~ResetByClockJump
    /\ Len(lastTick.checked) >= 2

\* C4 as claimed: a tick that passes the gate with the watermark less than one
\* minute behind now runs no drain iteration, dispatches no timer and leaves the
\* watermark as it was.
C4_NoIterationWithinAMinute ==
    ( /\ Evaluated
      /\ lastTick.before # NULL
      /\ lastTick.before < lastTick.nowTime
      /\ lastTick.nowTime - lastTick.before < 60000 )
    => /\ lastTick.checked = <<>>
       /\ lastTick.dispatched = <<>>
       /\ nextScheduledCheckTime = lastTick.before

\* C4 as amended: a tick that passes the gate with the watermark equal to now
\* runs no drain iteration, dispatches no timer and leaves the watermark as it
\* was; with the watermark behind now by less than one minute it runs exactly
\* one drain iteration, at the watermark, and leaves the watermark 60000 ms
\* later.
C4_OneIterationWithinAMinute ==
    (Evaluated /\ lastTick.before # NULL) =>
        /\ lastTick.before = lastTick.nowTime =>
               /\ lastTick.checked = <<>>
               /\ lastTick.dispatched = <<>>
               /\ Len(pipelines) = lastTick.pipelinesBefore
               /\ nextScheduledCheckTime = lastTick.before
        /\ ( /\ lastTick.before < lastTick.nowTime
             /\ lastTick.nowTime - lastTick.before < 60000 ) =>
               /\ lastTick.checked = << lastTick.before >>
               /\ nextScheduledCheckTime = lastTick.before + 60000

\* A tick read the clock 1000 ms after the watermark and ran one iteration.
C4_Witness ==
    /\ Evaluated
    /\ lastTick.before # NULL
    /\ lastTick.nowTime - lastTick.before = 1000
    /\ Len(lastTick.checked) = 1

\* C5: a tick is a no-op (no timer dispatched, nextScheduledCheckTime left as it
\* was, null included) exactly when embedded is true and the NTP client state
\* is neither Synced nor Disabled; every other tick derives the watermark and
\* runs the drain loop until the watermark is no longer behind the clock it
\* read.  Only a tick writes lastTick.
C5_SyncGate ==
    [][ lastTick' # lastTick =>
          LET closed == embedded = TRUE /\ ntpState \notin {"Synced", "Disabled"}
          IN  /\ lastTick'.kind = "gated" <=> closed
              /\ lastTick'.kind = "evaluated" <=> ~closed
              /\ closed => /\ nextScheduledCheckTime' = nextScheduledCheckTime
                           /\ pipelines' = pipelines
              /\ ~closed => /\ lastTick'.entry # NULL
                            /\ nextScheduledCheckTime' # NULL
                            /\ nextScheduledCheckTime' >= lastTick'.nowTime
                            /\ nextScheduledCheckTime'
                                   = lastTick'.entry + 60000 * Len(lastTick'.checked) ]_vars

\* A gated tick left the watermark null.
C5_Witness ==
    /\ lastTick.kind = "gated"
    /\ embedded = TRUE
    /\ nextScheduledCheckTime = NULL

\* A gated tick left a watermark that an earlier tick had set.
C5_WitnessKept ==
    /\ lastTick.kind = "gated"
    /\ nextScheduledCheckTime # NULL
    /\ nextScheduledCheckTime = lastTick.before

\* The timer at index t of the configuration is due at instant c.
Due(t, c) ==
    /\ timers[t].enabled = TRUE
    /\ getUTCDay(c) \in timers[t].dow
    /\ timers[t].hour = getUTCHours(c)
    /\ timers[t].minute = getUTCMinutes(c)

\* C6: in each drain iteration at watermark w, executeTimer is called once for
\* every timer that is enabled and whose dow, hour and minute are those of w in
\* UTC, and for no other timer; each call adds one pipeline; no pipeline is ever
\* that of a timer that is not enabled.
C6_DispatchExactlyMatching ==
    /\ Evaluated =>
           /\ \A i \in 1 .. Len(lastTick.checked) : \A t \in 1 .. Len(timers) :
                  Cardinality({ j \in 1 .. Len(lastTick.dispatched) :
                                   /\ lastTick.dispatched[j].timer = t
                                   /\ lastTick.dispatched[j].checkTime = lastTick.checked[i] })
                      = IF Due(t, lastTick.checked[i]) THEN 1 ELSE 0
           /\ \A j \in 1 .. Len(lastTick.dispatched) :
                  /\ \E i \in 1 .. Len(lastTick.checked) :
                         lastTick.dispatched[j].checkTime = lastTick.checked[i]
                  /\ pipelines[lastTick.pipelinesBefore + j].timer
                         = lastTick.dispatched[j].timer
           /\ Len(pipelines) = lastTick.pipelinesBefore + Len(lastTick.dispatched)
    /\ \A i \in 1 .. Len(pipelines) : timers[pipelines[i].timer].enabled = TRUE

\* A tick evaluated two minutes and dispatched the timer due in one of them,
\* next to a disabled timer with the same schedule and to timers that miss it.
C6_Witness ==
    /\ Evaluated
    /\ Len(lastTick.checked) = 2
    /\ Len(lastTick.dispatched) = 1
    /\ \E t \in 1 .. Len(timers) :
           /\ timers[t].enabled = FALSE
           /\ timers[t].dow = timers[lastTick.dispatched[1].timer].dow
           /\ timers[t].hour = timers[lastTick.dispatched[1].timer].hour
           /\ timers[t].minute = timers[lastTick.dispatched[1].timer].minute

\* The definition of the timer pipeline i was dispatched for.
DefinitionOf(i) == timers[pipelines[i].timer]

\* The pre_actions list of a definition (empty when it has none).
ListedPreActions(def) ==
    IF "pre_actions" \in DOMAIN def THEN def.pre_actions ELSE <<>>

KnownPreActionTypes == {"FAN_SPEED_CONTROL", "WATER_USAGE_CONTROL", "OPERATION_MODE_CONTROL"}

KnownActionTypes == {"FULL_CLEANUP", "SEGMENT_CLEANUP"}

HasUnknownPreAction(def) ==
    \E k \in 1 .. Len(ListedPreActions(def)) :
        ListedPreActions(def)[k].type \notin KnownPreActionTypes

HasKnownAction(def) ==
    "action" \in DOMAIN def /\ def.action.type \in KnownActionTypes

\* C7: a pipeline dispatched for a timer whose pre_actions list holds an entry
\* of unknown type, at any position, runs no pre-action and no action, and is
\* never left waiting for one.
C7_NoRunWithUnknownPreAction ==
    \A i \in 1 .. Len(pipelines) :
        HasUnknownPreAction(DefinitionOf(i)) =>
            /\ pipelines[i].runs = <<>>
            /\ pipelines[i].completed = 0
            /\ pipelines[i].status # "awaiting"

\* A pipeline was dispatched for a timer with a known action whose second
\* pre-action is of unknown type and whose first is of a known one.
C7_Witness ==
    \E i \in 1 .. Len(pipelines) :
        /\ HasKnownAction(DefinitionOf(i))
        /\ Len(ListedPreActions(DefinitionOf(i))) = 2
        /\ ListedPreActions(DefinitionOf(i))[1].type \in KnownPreActionTypes
        /\ ListedPreActions(DefinitionOf(i))[2].type \notin KnownPreActionTypes
        /\ pipelines[i].runs = <<>>

\* C8 as claimed: a pipeline dispatched for a timer whose action is missing or
\* of unknown type records one warning and runs no pre-action and no action.
C8_UnknownActionWarnsAndAborts ==
    \A i \in 1 .. Len(pipelines) :
        ~HasKnownAction(DefinitionOf(i)) =>
            /\ pipelines[i].warnings = 1
            /\ pipelines[i].runs = <<>>

\* The run a pipeline makes for entry k of the listed pre-actions.
IsRunOfPreAction(run, def, k) ==
    /\ run.stage = "pre_action"
    /\ run.n = k
    /\ run.handler = ResolvePreActionType(ListedPreActions(def)[k].type)

\* C9: in every pipeline the runs start in the listed order, the pre-actions
\* first and the action after the last of them; a run starts only when every
\* run before it has completed, whatever other pipelines and ticks do.
C9_PipelineOrder ==
    \A i \in 1 .. Len(pipelines) :
        LET p == pipelines[i]
            listed == ListedPreActions(DefinitionOf(i))
        IN  /\ Len(p.runs) <= Len(listed) + 1
            /\ \A k \in 1 .. Len(p.runs) :
                   IF k <= Len(listed)
                   THEN IsRunOfPreAction(p.runs[k], DefinitionOf(i), k)
                   ELSE p.runs[k].stage = "action"
            /\ p.runs # <<>> => p.completed >= Len(p.runs) - 1
            /\ p.completed <= Len(p.runs)

\* A pipeline with two pre-actions has started its action while the pipeline of
\* another timer, dispatched by a later tick, waits for a run.
C9_Witness ==
    \E i, j \in 1 .. Len(pipelines) :
        /\ i < j
        /\ pipelines[i].timer # pipelines[j].timer
        /\ Len(ListedPreActions(DefinitionOf(i))) = 2
        /\ Len(pipelines[i].runs) = 3
        /\ pipelines[i].completed = 2
        /\ pipelines[j].status = "awaiting"

\* C10: in a pipeline that logged the failure of a run, the failed run is the
\* last one started: the runs before it have completed, each started once, and
\* nothing was started after it (no later pre-action, no action when a
\* pre-action failed, no second attempt and no undoing run).
C10_StopsAtFailedPreAction ==
    \A i \in 1 .. Len(pipelines) :
        LET p == pipelines[i]
        IN  /\ \A k, l \in 1 .. Len(p.runs) : p.runs[k] = p.runs[l] => k = l
            /\ (p.errors > 0 /\ p.runs # <<>>) =>
                   /\ p.status = "rejected"
                   /\ p.errors = 1
                   /\ Len(p.runs) = p.completed + 1
                   /\ \A k \in 1 .. Len(p.runs) : p.runs[k] = p.steps[k]
                   /\ p.runs[Len(p.runs)].stage = "pre_action" =>
                          \A k \in 1 .. Len(p.runs) : p.runs[k].stage = "pre_action"

\* The second of two pre-actions failed: the first has completed and the action
\* was not started.
C10_Witness ==
    \E i \in 1 .. Len(pipelines) :
        /\ pipelines[i].errors = 1
        /\ Len(ListedPreActions(DefinitionOf(i))) = 2
        /\ Len(pipelines[i].runs) = 2
        /\ pipelines[i].completed = 1
        /\ pipelines[i].runs[2].stage = "pre_action"

\* The definition is well formed: a known action, and pre-actions of known
\* types with params.
WellFormed(def) ==
    /\ HasKnownAction(def)
    /\ \A k \in 1 .. Len(ListedPreActions(def)) :
           /\ ListedPreActions(def)[k].type \in KnownPreActionTypes
           /\ "params" \in DOMAIN ListedPreActions(def)[k]

\* The pipeline ended without reaching its action: a warning for an unknown
\* type, or a logged error (a TypeError or a failed run).
Failed(p) == p.warnings > 0 \/ p.errors > 0

\* C11: whatever the other timers' pipelines do or fail to do, a tick that
\* passes the gate leaves the watermark where the clock alone puts it (the
\* first step of 60000 ms from the entry watermark that is not before now),
\* calls executeTimer once for every timer due in each minute it evaluates,
\* starts the first run of every well-formed timer among them, and leaves the
\* earlier pipelines as they were; a run that completes or fails changes the
\* pipeline it belongs to and nothing else: not another pipeline, not the
\* watermark, not the interval.
C11_FailureIsolation ==
    [][ /\ (lastTick' # lastTick /\ lastTick'.kind = "evaluated") =>
              LET entry == lastTick'.entry
                  steps == (lastTick'.nowTime - entry + 59999) \div 60000
                  calls == lastTick'.dispatched
              IN  /\ nextScheduledCheckTime' = entry + 60000 * steps
                  /\ \A k \in 0 .. steps - 1 : \A t \in 1 .. Len(timers) :
                         Due(t, entry + 60000 * k) =>
                             Cardinality({ j \in 1 .. Len(calls) :
                                              /\ calls[j].timer = t
                                              /\ calls[j].checkTime = entry + 60000 * k }) = 1
                  /\ Len(pipelines') = Len(pipelines) + Len(calls)
                  /\ \A i \in 1 .. Len(pipelines) : pipelines'[i] = pipelines[i]
                  /\ \A j \in 1 .. Len(calls) :
                         WellFormed(timers[calls[j].timer]) =>
                             /\ pipelines'[Len(pipelines) + j].timer = calls[j].timer
                             /\ pipelines'[Len(pipelines) + j].status = "awaiting"
                             /\ Len(pipelines'[Len(pipelines) + j].runs) = 1
        /\ (lastTick' = lastTick /\ pipelines' # pipelines) =>
              /\ nextScheduledCheckTime' = nextScheduledCheckTime
              /\ timerEvaluationInterval' = timerEvaluationInterval
              /\ Len(pipelines') = Len(pipelines)
              /\ Cardinality({i \in 1 .. Len(pipelines) : pipelines'[i] # pipelines[i]}) = 1
      ]_vars

\* Two timers were dispatched in the same minute; the pipeline of the first
\* failed, the pipeline of the second ran its pre-action and its action to the
\* end, and a later tick has passed the gate and moved the watermark.
C11_Witness ==
    /\ Len(pipelines) = 2
    /\ Failed(pipelines[1])
    /\ pipelines[2].status = "resolved"
    /\ pipelines[2].completed = 2
    /\ pipelines[2].runs[2].stage = "action"
    /\ Evaluated
    /\ lastTick.pipelinesBefore = 2
    /\ lastTick.checked # <<>>

\* C12: every call of shutdown() resolves, leaves the interval cleared and
\* writes nothing else; a call after the first changes nothing at all: the
\* interval was cleared already and the watermark is the one the first call
\* left.
C12_ShutdownIdempotent ==
    [][ lastShutdown'.calls > lastShutdown.calls =>
          /\ lastShutdown'.rejected = 0
          /\ timerEvaluationInterval' = FALSE
          /\ nextScheduledCheckTime' = nextScheduledCheckTime
          /\ pipelines' = pipelines
          /\ lastTick' = lastTick
          /\ << ntpState', embedded', timers' >> = << ntpState, embedded, timers >>
          /\ lastShutdown.calls >= 1 =>
                 /\ timerEvaluationInterval' = timerEvaluationInterval
                 /\ nextScheduledCheckTime' = lastShutdown.watermark
      ]_vars

\* shutdown() was called twice on a scheduler whose watermark was set and that
\* has a pipeline in flight.
C12_Witness ==
    /\ lastShutdown.calls = 2
    /\ lastShutdown.rejected = 0
    /\ timerEvaluationInterval = FALSE
    /\ nextScheduledCheckTime # NULL
    /\ nextScheduledCheckTime = lastShutdown.watermark
    /\ \E i \in 1 .. Len(pipelines) : pipelines[i].status = "awaiting"

\* C13: once shutdown() has been called, no step is a tick: lastTick, the
\* watermark and the number of pipelines stay as they are and the interval
\* stays cleared, while the pipelines dispatched before go on (a pipeline that
\* awaits a run can have it completed); the call itself does not wait for
\* them: it resolves in the step it is made, with pipelines still in flight.
C13_NoTickAfterShutdown ==
    [][ /\ lastShutdown.calls >= 1 =>
              /\ lastTick' = lastTick
              /\ nextScheduledCheckTime' = nextScheduledCheckTime
              /\ Len(pipelines') = Len(pipelines)
              /\ timerEvaluationInterval' = FALSE
        /\ lastShutdown'.calls > lastShutdown.calls =>
              /\ lastShutdown'.rejected = lastShutdown.rejected
              /\ pipelines' = pipelines
        /\ lastShutdown.calls >= 1 =>
              \A i \in 1 .. Len(pipelines) :
                  pipelines[i].status = "awaiting" => ENABLED RunSucceeds(i)
      ]_vars

\* shutdown() has been called and has resolved while a pipeline with two
\* pre-actions awaits the first of them.
C13_Witness ==
    /\ lastShutdown.calls >= 1
    /\ lastShutdown.rejected = 0
    /\ timerEvaluationInterval = FALSE
    /\ \E i \in 1 .. Len(pipelines) :
           /\ Len(pipelines[i].steps) = 3
           /\ pipelines[i].status = "awaiting"
           /\ pipelines[i].completed = 0

\* C14 as claimed: a tick that passes the gate never leaves the watermark below
\* the one it found, and no drain iteration evaluates an instant earlier than
\* the one evaluated by the iteration before it, whatever the clock read.
C14_Monotonic ==
    (Evaluated /\ lastTick.before # NULL) =>
        /\ nextScheduledCheckTime >= lastTick.before
        /\ \A i \in 1 .. Len(lastTick.checked) :
               Previous(i) # NULL => lastTick.checked[i] >= Previous(i)

\* C14 as amended: a tick that reads a clock not behind the watermark it found
\* never leaves the watermark below it, and its drain iterations evaluate
\* instants not earlier than the one evaluated before; a tick that reads a
\* clock behind the watermark sets the watermark back: it evaluates the one
\* instant now - 60000, earlier than the last one evaluated before, and leaves
\* the watermark at now.
C14_MonotonicUnlessClockBehind ==
    (Evaluated /\ lastTick.before # NULL) =>
        IF lastTick.before <= lastTick.nowTime
        THEN /\ nextScheduledCheckTime >= lastTick.before
             /\ \A i \in 1 .. Len(lastTick.checked) :
                    Previous(i) # NULL => lastTick.checked[i] >= Previous(i)
        ELSE /\ nextScheduledCheckTime = lastTick.nowTime
             /\ nextScheduledCheckTime < lastTick.before
             /\ lastTick.checked = << lastTick.nowTime - 60000 >>
             /\ lastTick.prevChecked # NULL
             /\ lastTick.checked[1] < lastTick.prevChecked

\* A tick found the watermark two minutes behind the clock and advanced it by
\* two steps.
C14_Witness ==
    /\ Evaluated
    /\ lastTick.before # NULL
    /\ lastTick.before < lastTick.nowTime
    /\ nextScheduledCheckTime = lastTick.before + 120000
    /\ lastTick.checked = << lastTick.before, lastTick.before + 60000 >>

\* C15 as claimed: a watermark that is not null is a multiple of 60000.
C15_MinuteBoundary ==
    nextScheduledCheckTime # NULL => nextScheduledCheckTime % 60000 = 0

\* C15 as amended: the watermark keeps, within its minute, the offset of the
\* clock reading of the tick that last reset it: a tick that resets the
\* watermark (null, ahead of now, or more than 3600000 ms behind) leaves it at
\* the offset of now, any other tick at the offset it found.
C15_OffsetOfLastReset ==
    Evaluated =>
        LET w == lastTick.before
            now == lastTick.nowTime
        IN  IF w = NULL \/ w > now \/ now - w > 3600000
            THEN nextScheduledCheckTime % 60000 = now % 60000
            ELSE nextScheduledCheckTime % 60000 = w % 60000

\* A tick read the clock 1000 ms into a minute on a null watermark and left a
\* watermark 1000 ms into a minute.
C15_Witness ==
    /\ Evaluated
    /\ lastTick.before = NULL
    /\ lastTick.nowTime % 60000 = 1000
    /\ nextScheduledCheckTime % 60000 = 1000

\* C16 as claimed: at the end of a tick that passed the gate the watermark is
\* not greater than the clock the tick read.
C16_NeverAheadOfNow ==
    Evaluated => ~(nextScheduledCheckTime > lastTick.nowTime)

\* C16 as amended: at the end of a tick that passed the gate the watermark is
\* not less than the clock the tick read; it is greater exactly when the clock
\* was not a whole number of minutes after the watermark the drain loop
\* started from.
C16_AheadByLessThanAMinute ==
    Evaluated =>
        /\ ~(nextScheduledCheckTime < lastTick.nowTime)
        /\ nextScheduledCheckTime > lastTick.nowTime
               <=> (lastTick.nowTime - lastTick.entry) % 60000 # 0

\* A tick read the clock 61000 ms after the watermark, ran two iterations and
\* left the watermark 59000 ms ahead of the clock.
C16_Witness ==
    /\ Evaluated
    /\ lastTick.before # NULL
    /\ lastTick.nowTime - lastTick.before = 61000
    /\ Len(lastTick.checked) = 2
    /\ nextScheduledCheckTime = lastTick.nowTime + 59000

\* C18: at the end of a tick that passed the gate,
\* now <= nextScheduledCheckTime < now + 60000, whatever watermark the tick
\* found: null, ahead of now, more than 60 minutes behind, or within 60
\* minutes behind.
C18_WatermarkWithinAMinuteOfNow ==
    Evaluated =>
        /\ lastTick.nowTime <= nextScheduledCheckTime
        /\ nextScheduledCheckTime < lastTick.nowTime + 60000

\* A tick found the watermark exactly 60 minutes behind, kept it and drained
\* 60 steps, up to the clock.
C18_Witness ==
    /\ Evaluated
    /\ lastTick.before # NULL
    /\ lastTick.nowTime - lastTick.before = 3600000
    /\ lastTick.entry = lastTick.before
    /\ nextScheduledCheckTime = lastTick.nowTime

\* The pipelines that await a run: each of them hangs for as long as that run
\* does not complete.
InFlight == {i \in 1 .. Len(pipelines) : pipelines[i].status = "awaiting"}

\* C17: while pipelines hang in a run, a tick that passes the gate still runs
\* its drain loop to the end (the watermark ends at the first step not before
\* now), still calls executeTimer once for every timer due in a minute it
\* evaluates, a timer with a hanging pipeline included, and leaves the hanging
\* pipelines as they are; and every other pipeline in flight can have its run
\* completed, which changes that pipeline only.
C17_HungPipelineStallsOnlyItself ==
    [][ /\ (InFlight # {} /\ lastTick' # lastTick /\ lastTick'.kind = "evaluated") =>
              /\ nextScheduledCheckTime'
                     = lastTick'.entry + 60000 * Len(lastTick'.checked)
              /\ nextScheduledCheckTime' >= lastTick'.nowTime
              /\ \A k \in 1 .. Len(lastTick'.checked) : \A t \in 1 .. Len(timers) :
                     Due(t, lastTick'.checked[k]) =>
                         \E j \in 1 .. Len(lastTick'.dispatched) :
                             /\ lastTick'.dispatched[j].timer = t
                             /\ lastTick'.dispatched[j].checkTime = lastTick'.checked[k]
                             /\ Len(pipelines') >= Len(pipelines) + j
                             /\ pipelines'[Len(pipelines) + j].timer = t
                             /\ pipelines'[Len(pipelines) + j].status = "awaiting"
              /\ \A i \in InFlight : pipelines'[i] = pipelines[i]
        /\ \A i \in InFlight : ENABLED RunSucceeds(i)
        /\ \A i \in InFlight : \A j \in InFlight \ {i} :
               pipelines'[j] # pipelines[j] => pipelines'[i] = pipelines[i]
      ]_vars

\* The first pipeline of a timer still awaits its first run while a later tick
\* has dispatched the same timer again, and that second pipeline has run to the
\* end.
C17_Witness ==
    /\ Len(pipelines) = 2
    /\ pipelines[1].timer = pipelines[2].timer
    /\ pipelines[1].status = "awaiting"
    /\ pipelines[1].completed = 0
    /\ pipelines[2].status = "resolved"
    /\ pipelines[2].completed = Len(pipelines[2].steps)
    /\ Evaluated
    /\ lastTick.pipelinesBefore = 1
    /\ Len(lastTick.dispatched) = 1
    /\ nextScheduledCheckTime >= lastTick.nowTime

\* The UTC hour and minute a drain iteration at instant t compares with.
HourAndMinute(t) == << getUTCHours(t), getUTCMinutes(t) >>

\* C19: a tick that passes the gate runs at most 60 drain iterations (60 of
\* them when it finds the watermark exactly 3600000 ms behind, which it keeps),
\* no two of its iterations have the same UTC hour and minute, and it calls
\* executeTimer at most once for any timer.
C19_AtMostOncePerTick ==
    Evaluated =>
        /\ Len(lastTick.checked) <= 60
        /\ (lastTick.before # NULL /\ lastTick.nowTime - lastTick.before = 3600000) =>
               /\ lastTick.entry = lastTick.before
               /\ Len(lastTick.checked) = 60
        /\ \A i, j \in 1 .. Len(lastTick.checked) :
               i # j => HourAndMinute(lastTick.checked[i]) # HourAndMinute(lastTick.checked[j])
        /\ \A i, j \in 1 .. Len(lastTick.dispatched) :
               i # j => lastTick.dispatched[i].timer # lastTick.dispatched[j].timer

\* A tick found the watermark exactly 60 minutes behind, ran 60 iterations and
\* dispatched two timers due in two of those minutes, each once.
C19_Witness ==
    /\ Evaluated
    /\ lastTick.before # NULL
    /\ lastTick.nowTime - lastTick.before = 3600000
    /\ Len(lastTick.checked) = 60
    /\ Len(lastTick.dispatched) = 2
    /\ lastTick.dispatched[1].timer # lastTick.dispatched[2].timer

\* The first tick that passes the gate after gated ticks evaluates every step
\* of 60000 ms from the watermark it found up to now, and calls executeTimer
\* for the timers due in those minutes.
DeferredMinutesEvaluated ==
    /\ lastTick.entry = lastTick.before
    /\ \A k \in 0 .. (lastTick.nowTime - lastTick.before + 59999) \div 60000 - 1 :
           /\ k + 1 <= Len(lastTick.checked)
           /\ lastTick.checked[k + 1] = lastTick.before + 60000 * k
           /\ \A t \in 1 .. Len(timers) :
                  Due(t, lastTick.before + 60000 * k) =>
                      \E j \in 1 .. Len(lastTick.dispatched) :
                          /\ lastTick.dispatched[j].timer = t
                          /\ lastTick.dispatched[j].checkTime = lastTick.before + 60000 * k
    /\ \A k \in 1 .. Len(lastTick.checked) : lastTick.checked[k] < lastTick.nowTime

\* The tick evaluated the minute of now - 60000 only.
GatedMinutesDiscarded ==
    /\ lastTick.entry = lastTick.nowTime - 60000
    /\ lastTick.checked = << lastTick.nowTime - 60000 >>

\* C20 as claimed: the first tick that passes the gate after gated ticks
\* evaluates the deferred minutes when it finds the watermark at most
\* 3600000 ms behind now, and discards the gated minutes (evaluating now - 60000
\* only) only when it finds the watermark more than 3600000 ms behind.
C20_GateDefersUnlessStale ==
    (Evaluated /\ lastTick.afterGated) =>
        /\ ( /\ lastTick.before # NULL
              /\ lastTick.before <= lastTick.nowTime
              /\ lastTick.nowTime - lastTick.before <= 3600000 ) => DeferredMinutesEvaluated
        /\ lastTick.entry # lastTick.before =>
               /\ lastTick.before # NULL
               /\ lastTick.nowTime - lastTick.before > 3600000

\* C20 as amended: the first tick that passes the gate after gated ticks
\* evaluates the deferred minutes when it finds the watermark at most
\* 3600000 ms behind now; it discards the gated minutes (evaluating now - 60000
\* only) when it finds the watermark more than 3600000 ms behind now, still
\* null, or ahead of now.
C20_GateDefersUnlessReset ==
    (Evaluated /\ lastTick.afterGated) =>
        IF /\ lastTick.before # NULL
           /\ lastTick.before <= lastTick.nowTime
           /\ lastTick.nowTime - lastTick.before <= 3600000
        THEN DeferredMinutesEvaluated
        ELSE GatedMinutesDiscarded

\* The gate closed after a tick had set the watermark and opened again two
\* minutes later: the next tick evaluated both minutes and dispatched the timer
\* due in the first of them.
C20_Witness ==
    /\ Evaluated
    /\ lastTick.afterGated
    /\ lastTick.before # NULL
    /\ lastTick.nowTime - lastTick.before = 120000
    /\ lastTick.checked = << lastTick.before, lastTick.before + 60000 >>
    /\ Len(lastTick.dispatched) = 1
    /\ lastTick.dispatched[1].checkTime = lastTick.before

====
